---------------------------- MODULE Spec2Model ----------------------------
(* littleorm: a fluent SQL builder over sqlx.  The model covers the pool   *)
(* of reusable Context objects (DB.Acquire / DB.AcquireTx / pool.Put), the *)
(* configuration methods, the terminal operations with the statement and   *)
(* parameters they hand to the driver, and the transaction helper WithTx.  *)
(*                                                                         *)
(* A Go string is a sequence of one-character strings, so that joining,    *)
(* formatting and counting placeholders are computed and not assumed.      *)
(* A Go interface{} parameter value is an integer.  A nil error is "nil".  *)
EXTENDS Integers, Sequences, FiniteSets, TLC

VARIABLES
    ctxs,    \* Context id -> the fields of that Context (littleorm.go:98-113)
    nalloc,  \* number of Contexts allocated so far by pool.New
    pool,    \* Context id -> number of references to it lying in DB.pool
    pc,      \* caller -> "idle" | "held" (a Context checked out) |
             \*           "driver" (inside the driver call of find or exec)
    held,    \* caller -> the Context it has checked out, or NoCtx
    got,     \* caller -> the fields its Context had when pool.Get returned
             \*           it, kept until the caller's next call
    hist,    \* caller -> the calls of its chain so far: the acquisition,
             \*           then the configuration calls
    op,      \* caller -> the terminal operation it called
    sent,    \* caller -> the request its terminal operation handed to sqlx
    puts,    \* caller -> number of pool.Put calls made for the Context of
             \*           its last acquisition
    ret,     \* caller -> how its last terminal operation ended
    wtx      \* caller -> the activation record of its WithTx call

vars == <<ctxs, nalloc, pool, pc, held, got, hist, op, sent, puts, ret, wtx>>

---------------------------------------------------------------------------
(* Bounds of the model.                                                    *)

MaxCallers == 2     \* concurrent callers of the pool specification
MaxChain == 2       \* configuration calls chained on one checked-out Context
PoolChain == 1      \* the same, in the specification of concurrent callers
MaxIn == 3          \* longest value list given to WhereIn

Callers == 1..MaxCallers
CtxIds == 1..MaxCallers
NoCtx == 0
NoTx == 0

---------------------------------------------------------------------------
(* Constants of littleorm.go:16-27.                                        *)

Grouping == <<" ", "a", "n", "d", " ">>
ParamMarker == <<"?">>
SeqComma == <<",", " ">>
SeqSpace == <<" ">>
SelectTypeOne == 0
SelectTypeMany == 1

---------------------------------------------------------------------------
(* Strings.                                                                *)

RECURSIVE Join(_, _)
\* strings.Join: the elements of args with seq between neighbours.
Join(args, seq) ==
    IF Len(args) = 0 THEN <<>>
    ELSE IF Len(args) = 1 THEN args[1]
    ELSE args[1] \o seq \o Join(Tail(args), seq)

Digits == <<"0", "1", "2", "3", "4", "5", "6", "7", "8", "9">>

RECURSIVE FormatNat(_)
FormatNat(n) ==
    IF n < 10 THEN <<Digits[n + 1]>>
    ELSE FormatNat(n \div 10) \o <<Digits[(n % 10) + 1]>>

\* fmt's %d verb on an int64.
FormatInt(n) == IF n < 0 THEN <<"-">> \o FormatNat(0 - n) ELSE FormatNat(n)

\* sqljoin is strings.Join.
sqljoin(args, seq) == Join(args, seq)

\* sqlwhere without its test of len(wheres).
sqlwhereAlways(wheres, grouping) ==
    <<"w", "h", "e", "r", "e", " ">> \o Join(wheres, grouping)

\* sqlwhere: "where " and the joined conditions, or "" when there is none.
sqlwhere(wheres, grouping) ==
    IF Len(wheres) > 0
    THEN <<"w", "h", "e", "r", "e", " ">> \o Join(wheres, grouping)
    ELSE <<>>

\* Number of occurrences of the character ch in the string s.
RECURSIVE CountChar(_, _)
CountChar(s, ch) ==
    IF Len(s) = 0 THEN 0
    ELSE (IF s[1] = ch THEN 1 ELSE 0) + CountChar(Tail(s), ch)

RECURSIVE Flatten(_)
Flatten(ss) == IF Len(ss) = 0 THEN <<>> ELSE ss[1] \o Flatten(Tail(ss))

---------------------------------------------------------------------------
(* The Context and the pool.                                               *)

\* allocateContext: &Context{db: db}, every other field at its zero value.
allocateContext ==
    [sql |-> <<>>, name |-> <<>>, what |-> <<>>, wheres |-> <<>>,
     order |-> <<>>, group |-> <<>>, having |-> <<>>, limit |-> 0,
     offset |-> 0, args |-> <<>>, tx |-> NoTx, lockX |-> FALSE,
     lockS |-> FALSE]

\* reset without its line ctx.tx = nil.
resetKeepsTx(ctx) ==
    [ctx EXCEPT !.sql = <<>>, !.name = <<>>, !.what = <<>>, !.wheres = <<>>,
                !.order = <<>>, !.group = <<>>, !.having = <<>>,
                !.limit = 0, !.offset = 0, !.args = <<>>,
                !.lockS = FALSE, !.lockX = FALSE]

\* Context.reset.
reset(ctx) ==
    [ctx EXCEPT !.sql = <<>>, !.name = <<>>, !.what = <<>>, !.wheres = <<>>,
                !.order = <<>>, !.group = <<>>, !.having = <<>>,
                !.limit = 0, !.offset = 0, !.args = <<>>, !.tx = NoTx,
                !.lockS = FALSE, !.lockX = FALSE]

\* sync.Pool.Put: one more reference to Context k lies in the pool.
PoolPut(p, k) == [p EXCEPT ![k] = @ + 1]

\* sync.Pool.Get hands out one pooled reference and removes it from the pool.
PoolTake(p, k) == [p EXCEPT ![k] = @ - 1]

Pooled == {k \in CtxIds : pool[k] > 0}

\* The callers that hold a reference to Context k.
Holders(k) == {c \in Callers : held[c] = k}

NoDest == [kind |-> "none", tags |-> <<>>]

NoOp == [m |-> "none", path |-> "none", text |-> <<>>, args |-> <<>>,
         dest |-> NoDest, fields |-> <<>>, rows |-> <<>>]

NoSent == [call |-> "none", on |-> "none", tx |-> NoTx, sql |-> <<>>,
           args |-> <<>>]

NoWtx == [pc |-> "none", tx |-> NoTx, err |-> "nil", calls |-> <<>>,
          begun |-> "none", work |-> "none", committed |-> "none",
          rolled |-> "none", ret |-> "none"]

\* One call of a chain: the method, its string, its string list, its
\* parameter values and its number.  For the acquisition, n is the
\* transaction given to AcquireTx and v the transaction handle the Context
\* still carried when pool.Get returned it.
Call(m, s, l, v, n) == [m |-> m, s |-> s, l |-> l, v |-> v, n |-> n]

\* The Context DB.Acquire returns, and after it the assignment ctx.tx = tx
\* of DB.AcquireTx (tx = NoTx stands for a plain Acquire).
acquired(ctx, tx) ==
    IF tx = NoTx THEN reset(ctx) ELSE [reset(ctx) EXCEPT !.tx = tx]

\* DB.Acquire, and DB.AcquireTx when tx is a transaction.  pool.Get returns
\* a pooled Context when the pool holds one and the Context made by
\* pool.New (allocateContext) otherwise.
acquire(c, tx) ==
    /\ pc[c] = "idle"
    /\ \/ \E k \in Pooled :
            /\ pool' = PoolTake(pool, k)
            /\ nalloc' = nalloc
            /\ held' = [held EXCEPT ![c] = k]
            /\ got' = [got EXCEPT ![c] = ctxs[k]]
            /\ ctxs' = [ctxs EXCEPT ![k] = acquired(ctxs[k], tx)]
       \/ /\ Pooled = {}
          /\ nalloc < MaxCallers
          /\ nalloc' = nalloc + 1
          /\ pool' = pool
          /\ held' = [held EXCEPT ![c] = nalloc + 1]
          /\ got' = [got EXCEPT ![c] = allocateContext]
          /\ ctxs' = [ctxs EXCEPT
                        ![nalloc + 1] = acquired(allocateContext, tx)]
    /\ pc' = [pc EXCEPT ![c] = "held"]
    /\ puts' = [puts EXCEPT ![c] = 0]
    /\ ret' = [ret EXCEPT ![c] = "none"]
    /\ hist' = [hist EXCEPT ![c] =
                  <<Call(IF tx = NoTx THEN "Acquire" ELSE "AcquireTx",
                         <<>>, <<>>, <<got'[c].tx>>, tx)>>]
    /\ UNCHANGED <<op, sent>>

Acquire(c) == acquire(c, NoTx) /\ UNCHANGED wtx

AcquireTx(c, tx) == acquire(c, tx) /\ UNCHANGED wtx

---------------------------------------------------------------------------
(* Configuration methods.  Each returns ctx, so the chain goes on with the *)
(* same held[c].                                                           *)

\* The shared shape of a configuration method: ctx := newctx; return ctx.
configure(c, call, newctx) ==
    /\ pc[c] = "held"
    /\ Len(hist[c]) <= MaxChain
    /\ ctxs' = [ctxs EXCEPT ![held[c]] = newctx]
    /\ hist' = [hist EXCEPT ![c] = Append(@, call)]
    /\ got' = [got EXCEPT ![c] = allocateContext]
    /\ UNCHANGED <<nalloc, pool, pc, held, op, sent, puts, ret, wtx>>

Name(c, name) ==
    configure(c, Call("Name", name, <<>>, <<>>, 0),
              [ctxs[held[c]] EXCEPT !.name = name])

What(c, what) ==
    configure(c, Call("What", <<>>, what, <<>>, 0),
              [ctxs[held[c]] EXCEPT !.what = what])

\* The fields of ctx after ctx.Where(where, args...).
whereOf(ctx, where, args) ==
    [ctx EXCEPT !.wheres = Append(@, where), !.args = @ \o args]

Where(c, where, args) ==
    configure(c, Call("Where", where, <<>>, args, 0),
              whereOf(ctxs[held[c]], where, args))

\* places of WhereIn: n placeholders.
Places(n) == [i \in 1..n |-> ParamMarker]

\* inWhere with the places joined by SeqSpace.
inWhereSpaced(field, n) ==
    field \o <<" ", "i", "n", " ", "(">> \o sqljoin(Places(n), SeqSpace)
          \o <<")">>

\* fmt.Sprintf("%s in (%s)", field, sqljoin(places, SeqComma))
inWhere(field, n) ==
    field \o <<" ", "i", "n", " ", "(">> \o sqljoin(Places(n), SeqComma)
          \o <<")">>

WhereIn(c, field, args) ==
    configure(c, Call("WhereIn", field, <<>>, args, 0),
              whereOf(ctxs[held[c]], inWhere(field, Len(args)), args))

Order(c, order) ==
    configure(c, Call("Order", order, <<>>, <<>>, 0),
              [ctxs[held[c]] EXCEPT !.order = order])

\* Limit that also puts the offset back to 0.
LimitClearsOffset(c, limit) ==
    configure(c, Call("Limit", <<>>, <<>>, <<>>, limit),
              [ctxs[held[c]] EXCEPT !.limit = limit, !.offset = 0])

Limit(c, limit) ==
    configure(c, Call("Limit", <<>>, <<>>, <<>>, limit),
              [ctxs[held[c]] EXCEPT !.limit = limit])

Offset(c, offset) ==
    configure(c, Call("Offset", <<>>, <<>>, <<>>, offset),
              [ctxs[held[c]] EXCEPT !.offset = offset])

Group(c, group) ==
    configure(c, Call("Group", group, <<>>, <<>>, 0),
              [ctxs[held[c]] EXCEPT !.group = group])

Having(c, having, args) ==
    configure(c, Call("Having", having, <<>>, args, 0),
              [ctxs[held[c]] EXCEPT !.having = having, !.args = @ \o args])

LockX(c) ==
    configure(c, Call("LockX", <<>>, <<>>, <<>>, 0),
              [ctxs[held[c]] EXCEPT !.lockX = TRUE])

LockS(c) ==
    configure(c, Call("LockS", <<>>, <<>>, <<>>, 0),
              [ctxs[held[c]] EXCEPT !.lockS = TRUE])

---------------------------------------------------------------------------
(* Query assembly.                                                         *)

\* A destination: a pointer to a struct ("struct"), to a slice of structs
\* ("slice"), or to anything else ("other"); tags are the db tags of the
\* fields of the struct, in order, "" for a field without one.
RECURSIVE NonEmpty(_)
NonEmpty(ss) ==
    IF Len(ss) = 0 THEN <<>>
    ELSE (IF ss[1] = <<>> THEN <<>> ELSE <<ss[1]>>) \o NonEmpty(Tail(ss))

\* decodetags panics (reflect's NumField on a non-struct type) unless the
\* base type is a struct.
decodetagsPanics(dest) == dest.kind \notin {"struct", "slice"}

\* decodetags: the non-empty db tags of the base type, in field order.
decodetags(dest) == NonEmpty(dest.tags)

\* The column list of sqlselect: the projection, or the db tags of the
\* destination, or "*".
selectColumns(ctx, dest) ==
    IF Len(ctx.what) # 0 THEN sqljoin(ctx.what, SeqComma)
    ELSE IF Len(decodetags(dest)) > 0
         THEN sqljoin(decodetags(dest), SeqComma)
         ELSE <<"*">>

\* The where element of sqlArray, appended when there is a condition.
whereClause(ctx) ==
    IF Len(ctx.wheres) # 0 THEN <<sqlwhere(ctx.wheres, Grouping)>> ELSE <<>>

groupClause(ctx) ==
    IF ctx.group # <<>>
    THEN <<<<"g", "r", "o", "u", "p", " ", "b", "y", " ">> \o ctx.group>>
    ELSE <<>>

havingClause(ctx) ==
    IF ctx.having # <<>>
    THEN <<<<"h", "a", "v", "i", "n", "g", " ">> \o ctx.having>>
    ELSE <<>>

orderClause(ctx) ==
    IF ctx.order # <<>>
    THEN <<<<"o", "r", "d", "e", "r", " ", "b", "y", " ">> \o ctx.order>>
    ELSE <<>>

\* The limit element with limit and offset the other way round.
limitClauseSwapped(ctx) ==
    IF ctx.limit # 0
    THEN <<<<"l", "i", "m", "i", "t", " ">> \o FormatInt(ctx.limit)
           \o <<",", " ">> \o FormatInt(ctx.offset)>>
    ELSE <<>>

\* fmt.Sprintf("limit %d, %d", ctx.offset, ctx.limit) when ctx.limit != 0.
limitClause(ctx) ==
    IF ctx.limit # 0
    THEN <<<<"l", "i", "m", "i", "t", " ">> \o FormatInt(ctx.offset)
           \o <<",", " ">> \o FormatInt(ctx.limit)>>
    ELSE <<>>

\* The lock elements: lockS is tested first, then lockX.
lockClauses(ctx) ==
    (IF ctx.lockS
     THEN <<<<"l", "o", "c", "k", " ", "i", "n", " ", "s", "h", "a", "r", "e",
              " ", "m", "o", "d", "e">>>> ELSE <<>>)
    \o (IF ctx.lockX
        THEN <<<<"f", "o", "r", " ", "u", "p", "d", "a", "t", "e">>>>
        ELSE <<>>)

\* sqlselect appending the order element before the group element.
sqlselectOrderFirst(ctx, dest) ==
    sqljoin(<<<<"s", "e", "l", "e", "c", "t">>, selectColumns(ctx, dest),
              <<"f", "r", "o", "m", " ">> \o ctx.name>>
            \o whereClause(ctx) \o orderClause(ctx) \o groupClause(ctx)
            \o havingClause(ctx) \o limitClause(ctx) \o lockClauses(ctx),
            SeqSpace)

\* Context.sqlselect.
sqlselect(ctx, dest) ==
    sqljoin(<<<<"s", "e", "l", "e", "c", "t">>, selectColumns(ctx, dest),
              <<"f", "r", "o", "m", " ">> \o ctx.name>>
            \o whereClause(ctx) \o groupClause(ctx) \o havingClause(ctx)
            \o orderClause(ctx) \o limitClause(ctx) \o lockClauses(ctx),
            SeqSpace)

---------------------------------------------------------------------------
(* Terminal operations.  find and exec defer pool.Put(ctx), then defer the *)
(* cancel of the timeout, then call the driver; the deferred calls run     *)
(* when the function returns or panics.                                    *)

\* find without its defer of pool.Put.
findDefersNoPut == <<"cancel">>

\* The calls find has deferred when it reaches its switch.
findDefers == <<"Put", "cancel">>

\* exec deferring pool.Put twice.
execDefersPutTwice == <<"Put", "Put", "cancel">>

\* The calls exec has deferred when it calls ExecContext.
execDefers == <<"Put", "cancel">>

Defers(path) == IF path = "find" THEN findDefers ELSE execDefers

\* Number of pool.Put calls among the deferred calls ds.
NumPuts(ds) == Cardinality({i \in 1..Len(ds) : ds[i] = "Put"})

RECURSIVE PutTimes(_, _, _)
PutTimes(p, k, n) == IF n = 0 THEN p ELSE PutTimes(PoolPut(p, k), k, n - 1)

\* The function of caller c returns or panics: its deferred calls run, and
\* the caller's chain expression, which held the only reference, is over.
unwind(c, path, result) ==
    /\ pool' = PutTimes(pool, held[c], NumPuts(Defers(path)))
    /\ puts' = [puts EXCEPT ![c] = @ + NumPuts(Defers(path))]
    /\ held' = [held EXCEPT ![c] = NoCtx]
    /\ ret' = [ret EXCEPT ![c] = result]
    /\ pc' = [pc EXCEPT ![c] = "idle"]
    /\ hist' = [hist EXCEPT ![c] = <<>>]
    /\ op' = [op EXCEPT ![c] = NoOp]
    /\ sent' = [sent EXCEPT ![c] = NoSent]

\* The choice of the handle without the test of ctx.tx: always ctx.db.
RequestOnDb(ctx, call, query, args) ==
    [call |-> call, on |-> "db", tx |-> NoTx, sql |-> query, args |-> args]

\* The handle a Context runs its statement on: ctx.tx when it is not nil.
Request(ctx, call, query, args) ==
    [call |-> call, on |-> IF ctx.tx # NoTx THEN "tx" ELSE "db",
     tx |-> ctx.tx, sql |-> query, args |-> args]

\* Context.find, entered with the fields ctx, up to the driver call.
find(c, o, ctx, dest, selectType) ==
    LET build == ctx.sql = <<>>
        tagPanic == build /\ Len(ctx.what) = 0 /\ decodetagsPanics(dest)
        after == IF build /\ ~tagPanic
                 THEN [ctx EXCEPT !.sql = sqlselect(ctx, dest)] ELSE ctx
    IN  /\ pc[c] = "held"
        /\ ctxs' = [ctxs EXCEPT ![held[c]] = after]
        /\ IF tagPanic \/ selectType \notin {SelectTypeOne, SelectTypeMany}
           THEN unwind(c, "find", "panic")
           ELSE /\ op' = [op EXCEPT ![c] = o]
                /\ sent' = [sent EXCEPT ![c] =
                              Request(after,
                                      IF selectType = SelectTypeOne
                                      THEN "GetContext" ELSE "SelectContext",
                                      after.sql, after.args)]
                /\ pc' = [pc EXCEPT ![c] = "driver"]
                /\ UNCHANGED <<pool, puts, held, ret, hist>>
        /\ got' = [got EXCEPT ![c] = allocateContext]
        /\ UNCHANGED <<nalloc, wtx>>

\* Context.exec up to the driver call.
exec(c, o, query, args) ==
    /\ pc[c] = "held"
    /\ op' = [op EXCEPT ![c] = o]
    /\ sent' = [sent EXCEPT ![c] =
                  Request(ctxs[held[c]], "ExecContext", query, args)]
    /\ pc' = [pc EXCEPT ![c] = "driver"]
    /\ got' = [got EXCEPT ![c] = allocateContext]
    /\ UNCHANGED <<ctxs, nalloc, pool, held, hist, puts, ret, wtx>>

\* The driver call of caller c returns: with a result, with a driver error
\* or with the error of the expired timeout.  find or exec then returns.
DriverReturn(c, outcome) ==
    /\ pc[c] = "driver"
    /\ unwind(c, op[c].path, outcome)
    /\ UNCHANGED <<ctxs, nalloc, got, wtx>>

Op(m, path, text, args, dest, fields, rows) ==
    [m |-> m, path |-> path, text |-> text, args |-> args, dest |-> dest,
     fields |-> fields, rows |-> rows]

FindMany(c, dest) ==
    find(c, Op("FindMany", "find", <<>>, <<>>, dest, <<>>, <<>>),
         ctxs[held[c]], dest, SelectTypeMany)

FindOne(c, dest) ==
    find(c, Op("FindOne", "find", <<>>, <<>>, dest, <<>>, <<>>),
         ctxs[held[c]], dest, SelectTypeOne)

\* find called with a select type that is neither constant.
findOther(c, dest, selectType) ==
    /\ selectType \notin {SelectTypeOne, SelectTypeMany}
    /\ find(c, Op("find", "find", <<>>, <<>>, dest, <<>>, <<>>),
            ctxs[held[c]], dest, selectType)

\* InsertBatch putting the placeholders of all rows in one group.
insertQueryOneGroup(name, fields, data) ==
    <<"i", "n", "s", "e", "r", "t", " ", "i", "n", "t", "o", " ">>
    \o name \o <<" ", "(">> \o sqljoin(fields, SeqComma)
    \o <<")", " ", "v", "a", "l", "u", "e", "s", " ", "(">>
    \o sqljoin(Places(Len(Flatten(data))), SeqComma) \o <<")">>

\* The statement and parameters of InsertBatch(fields, data...).
insertQuery(name, fields, data) ==
    LET values == [r \in 1..Len(data) |->
                     <<"(">> \o sqljoin(Places(Len(data[r])), SeqComma)
                             \o <<")">>]
    IN  <<"i", "n", "s", "e", "r", "t", " ", "i", "n", "t", "o", " ">>
        \o name \o <<" ", "(">> \o sqljoin(fields, SeqComma)
        \o <<")", " ", "v", "a", "l", "u", "e", "s", " ">>
        \o sqljoin(values, SeqComma)

InsertBatch(c, fields, data) ==
    exec(c, Op("InsertBatch", "exec", <<>>, <<>>, NoDest, fields, data),
         insertQuery(ctxs[held[c]].name, fields, data), Flatten(data))

\* Insert(data): keys is the order in which range visits the map data, a
\* sequence of <<key, value>> pairs.
Insert(c, keys) ==
    LET fields == [i \in 1..Len(keys) |-> keys[i][1]]
        params == [i \in 1..Len(keys) |-> keys[i][2]]
    IN  exec(c, Op("Insert", "exec", <<>>, <<>>, NoDest, fields, <<params>>),
             insertQuery(ctxs[held[c]].name, fields, <<params>>),
             Flatten(<<params>>))

\* The statement of Update(sqlset, ...).
updateQuery(ctx, sqlset) ==
    <<"u", "p", "d", "a", "t", "e", " ">> \o ctx.name
    \o <<" ", "s", "e", "t", " ">> \o sqlset \o <<" ">>
    \o sqlwhere(ctx.wheres, Grouping)

\* The parameters appended the other way round.
updateParamsFiltersFirst(ctx, args) == ctx.args \o args

\* params := append(args, ctx.args...)
updateParams(ctx, args) == args \o ctx.args

Update(c, sqlset, args) ==
    exec(c, Op("Update", "exec", sqlset, args, NoDest, <<>>, <<>>),
         updateQuery(ctxs[held[c]], sqlset),
         updateParams(ctxs[held[c]], args))

\* UpdateMap(args): keys is the order in which range visits the map.
UpdateMap(c, keys) ==
    LET params == [i \in 1..Len(keys) |-> keys[i][2]]
        sets == [i \in 1..Len(keys) |-> keys[i][1] \o <<"=">> \o ParamMarker]
    IN  exec(c, Op("UpdateMap", "exec", sqljoin(sets, SeqComma), params,
                   NoDest, <<>>, <<>>),
             updateQuery(ctxs[held[c]], sqljoin(sets, SeqComma)),
             updateParams(ctxs[held[c]], params))

Delete(c) ==
    exec(c, Op("Delete", "exec", <<>>, <<>>, NoDest, <<>>, <<>>),
         <<"d", "e", "l", "e", "t", "e", " ", "f", "r", "o", "m", " ">>
         \o ctxs[held[c]].name \o <<" ">>
         \o sqlwhere(ctxs[held[c]].wheres, Grouping),
         ctxs[held[c]].args)

Select(c, dest, sql, args) ==
    find(c, Op("Select", "find", sql, args, dest, <<>>, <<>>),
         [ctxs[held[c]] EXCEPT !.sql = sql, !.args = args], dest,
         SelectTypeMany)

Get(c, dest, sql, args) ==
    find(c, Op("Get", "find", sql, args, dest, <<>>, <<>>),
         [ctxs[held[c]] EXCEPT !.sql = sql, !.args = args], dest,
         SelectTypeOne)

Exec(c, sql, args) ==
    exec(c, Op("Exec", "exec", sql, args, NoDest, <<>>, <<>>), sql, args)

Create(c, sql) ==
    exec(c, Op("Create", "exec", sql, <<>>, NoDest, <<>>, <<>>), sql, <<>>)

Drop(c) ==
    exec(c, Op("Drop", "exec", <<>>, <<>>, NoDest, <<>>, <<>>),
         <<"D", "R", "O", "P", " ", "T", "A", "B", "L", "E", " ", "I", "F",
           " ", "E", "X", "I", "S", "T", "S", " ">> \o ctxs[held[c]].name,
         <<>>)

---------------------------------------------------------------------------
(* DB.WithTx.  wtx[c].err is the named result err, wtx[c].calls the calls  *)
(* made so far, in order.                                                  *)

\* WithTx without the check of the error of Beginx.
beginFailedUnchecked(r) == FALSE

\* if err != nil { return } after Beginx.
beginFailed(r) == r # "nil"

\* The deferred function testing tx == nil.
deferRollsBackNilTx(err, tx) == err # "nil" /\ tx = NoTx

\* The condition of the deferred function: err != nil && tx != nil.
deferRollsBack(err, tx) == err # "nil" /\ tx # NoTx

\* tx, err = db.Beginx() and, when it succeeds, the call of h.
WithTxBegin(c, r) ==
    /\ pc[c] = "idle"
    /\ wtx[c].pc = "none"
    /\ wtx' = [wtx EXCEPT ![c] =
                 IF beginFailed(r)
                 THEN [NoWtx EXCEPT !.pc = "returned", !.err = r, !.ret = r,
                                    !.begun = r, !.calls = <<"Beginx">>,
                                    !.tx = IF r = "nil" THEN c ELSE NoTx]
                 ELSE [NoWtx EXCEPT !.pc = "work", !.err = r, !.begun = r,
                                    !.tx = IF r = "nil" THEN c ELSE NoTx,
                                    !.calls = <<"Beginx", "h">>]]
    /\ UNCHANGED <<ctxs, nalloc, pool, pc, held, got, hist, op, sent, puts,
                   ret>>

\* h returns e: err = h(tx, args); a non-nil err returns at once.
WorkReturn(c, e) ==
    /\ wtx[c].pc = "work"
    /\ pc[c] = "idle"
    /\ wtx' = [wtx EXCEPT ![c].work = e, ![c].err = e,
                          ![c].pc = IF e # "nil" THEN "defer" ELSE "commit"]
    /\ UNCHANGED <<ctxs, nalloc, pool, pc, held, got, hist, op, sent, puts,
                   ret>>

\* h panics: err keeps the value Beginx gave it and WithTx unwinds.
WorkPanic(c) ==
    /\ wtx[c].pc = "work"
    /\ pc[c] = "idle"
    /\ wtx' = [wtx EXCEPT ![c].work = "panic", ![c].pc = "defer"]
    /\ UNCHANGED <<ctxs, nalloc, pool, pc, held, got, hist, op, sent, puts,
                   ret>>

\* err = tx.Commit(); return.
TxCommit(c, r) ==
    /\ wtx[c].pc = "commit"
    /\ wtx' = [wtx EXCEPT ![c].committed = r, ![c].err = r,
                          ![c].calls = Append(@, "Commit"),
                          ![c].pc = "defer"]
    /\ UNCHANGED <<ctxs, nalloc, pool, pc, held, got, hist, op, sent, puts,
                   ret>>

\* The deferred function runs, with r the result of tx.Rollback() if it is
\* called, and WithTx returns err, or goes on panicking.
TxDefer(c, r) ==
    LET w == wtx[c]
        rolls == deferRollsBack(w.err, w.tx)
        err == IF rolls THEN r ELSE w.err
    IN  /\ w.pc = "defer"
        /\ rolls \/ r = "nil"
        /\ wtx' = [wtx EXCEPT
                     ![c].rolled = IF rolls THEN r ELSE @,
                     ![c].calls = IF rolls THEN Append(@, "Rollback") ELSE @,
                     ![c].err = err,
                     ![c].ret = IF w.work = "panic" THEN "none" ELSE err,
                     ![c].pc = IF w.work = "panic" THEN "panicked"
                               ELSE "returned"]
        /\ UNCHANGED <<ctxs, nalloc, pool, pc, held, got, hist, op, sent,
                       puts, ret>>

\* The caller of WithTx goes on.
WithTxExit(c) ==
    /\ wtx[c].pc \in {"returned", "panicked"}
    /\ wtx' = [wtx EXCEPT ![c] = NoWtx]
    /\ UNCHANGED <<ctxs, nalloc, pool, pc, held, got, hist, op, sent, puts,
                   ret>>

---------------------------------------------------------------------------
(* Inputs.                                                                 *)

Names == {<<"t">>}
Whats == {<<>>, <<<<"a">>, <<"b">>>>}
Wheres == {[s |-> <<"a", "=", "?">>, v |-> <<1>>],
           [s |-> <<"b", ">", "0">>, v |-> <<>>]}
InFields == {<<"c">>}
InValues == {<<>>, [i \in 1..MaxIn |-> 10 + i]}
Orders == {<<"a">>}
Limits == {2}
Offsets == {10}
Groups == {<<"g">>}
Havings == {[s |-> <<"g", ">", "?">>, v |-> <<5>>]}
Dests == {[kind |-> "struct", tags |-> <<<<"a">>, <<>>, <<"b">>>>],
          [kind |-> "slice", tags |-> <<<<>>>>],
          [kind |-> "other", tags |-> <<>>]}
RawDests == {d \in Dests : d.kind = "struct"}
OtherTypes == {2}
Fields == {<<<<"a">>, <<"b">>>>}
Rows == {<<<<1, 2>>>>, <<<<1, 2>>, <<3, 4>>>>, <<<<1>>>>}
Maps == {<<<<<<"a">>, 1>>, <<<<"b">>, 2>>>>, <<<<<<"b">>, 2>>, <<<<"a">>, 1>>>>}
Sets == {[s |-> <<"x", "=", "?">>, v |-> <<7>>],
         [s |-> <<"x", "=", "0">>, v |-> <<>>]}
Raws == {[s |-> <<"q", "?">>, v |-> <<9>>], [s |-> <<>>, v |-> <<>>]}
DriverOutcomes == {"ok", "err", "timeout"}
BeginResults == {"nil", "ErrBegin"}
WorkResults == {"nil", "ErrWork"}
CommitResults == {"nil", "ErrCommit"}
RollbackResults == {"nil", "ErrRollback"}

---------------------------------------------------------------------------
(* Specifications.                                                         *)

Init ==
    /\ ctxs = [k \in CtxIds |-> allocateContext]
    /\ nalloc = 0
    /\ pool = [k \in CtxIds |-> 0]
    /\ pc = [c \in Callers |-> "idle"]
    /\ held = [c \in Callers |-> NoCtx]
    /\ got = [c \in Callers |-> allocateContext]
    /\ hist = [c \in Callers |-> <<>>]
    /\ op = [c \in Callers |-> NoOp]
    /\ sent = [c \in Callers |-> NoSent]
    /\ puts = [c \in Callers |-> 0]
    /\ ret = [c \in Callers |-> "none"]
    /\ wtx = [c \in Callers |-> NoWtx]

\* One caller building and running statements, one after the other.
Next ==
    \E c \in {1} :
        \/ Acquire(c)
        \/ AcquireTx(c, c)
        \/ \E name \in Names : Name(c, name)
        \/ \E what \in Whats : What(c, what)
        \/ \E w \in Wheres : Where(c, w.s, w.v)
        \/ \E field \in InFields, args \in InValues : WhereIn(c, field, args)
        \/ \E order \in Orders : Order(c, order)
        \/ \E limit \in Limits : Limit(c, limit)
        \/ \E offset \in Offsets : Offset(c, offset)
        \/ \E group \in Groups : Group(c, group)
        \/ \E h \in Havings : Having(c, h.s, h.v)
        \/ LockX(c)
        \/ LockS(c)
        \/ \E dest \in Dests : FindMany(c, dest)
        \/ \E dest \in Dests : FindOne(c, dest)
        \/ \E dest \in Dests, t \in OtherTypes : findOther(c, dest, t)
        \/ \E fields \in Fields, data \in Rows : InsertBatch(c, fields, data)
        \/ \E keys \in Maps : Insert(c, keys)
        \/ \E u \in Sets : Update(c, u.s, u.v)
        \/ \E keys \in Maps : UpdateMap(c, keys)
        \/ Delete(c)
        \/ \E dest \in RawDests, q \in Raws : Select(c, dest, q.s, q.v)
        \/ \E dest \in RawDests, q \in Raws : Get(c, dest, q.s, q.v)
        \/ \E q \in Raws : Exec(c, q.s, q.v)
        \/ \E q \in Raws : Create(c, q.s)
        \/ Drop(c)
        \/ \E outcome \in DriverOutcomes : DriverReturn(c, outcome)

Spec == Init /\ [][Next]_vars

\* Concurrent callers sharing the pool, each running the chain
\* Acquire or AcquireTx, configuration, terminal operation, over and over.
PoolStruct == CHOOSE d \in Dests : d.kind = "struct"

NextPool ==
    \E c \in Callers :
        \/ Acquire(c)
        \/ AcquireTx(c, c)
        \/ /\ Len(hist[c]) <= PoolChain
           /\ \E w \in Wheres : w.v # <<>> /\ Where(c, w.s, w.v)
        \/ FindOne(c, PoolStruct)
        \/ \E u \in Sets : u.v # <<>> /\ Update(c, u.s, u.v)
        \/ \E outcome \in DriverOutcomes : DriverReturn(c, outcome)

SpecPool == Init /\ [][NextPool]_vars

\* One caller running WithTx again and again; the unit of work h runs
\* statements on Contexts bound to the transaction, as updateAge does.
NextTx ==
    \E c \in {1} :
        \/ \E r \in BeginResults : WithTxBegin(c, r)
        \/ /\ wtx[c].pc = "work"
           /\ \/ AcquireTx(c, wtx[c].tx)
              \/ \E w \in Wheres : Where(c, w.s, w.v)
              \/ LockX(c)
              \/ FindOne(c, PoolStruct)
              \/ \E u \in Sets : Update(c, u.s, u.v)
              \/ \E outcome \in DriverOutcomes : DriverReturn(c, outcome)
        \/ \E e \in WorkResults : WorkReturn(c, e)
        \/ WorkPanic(c)
        \/ \E r \in CommitResults : TxCommit(c, r)
        \/ \E r \in RollbackResults : TxDefer(c, r)
        \/ WithTxExit(c)

SpecTx == Init /\ [][NextTx]_vars

---------------------------------------------------------------------------
(* Properties.                                                             *)

\* Number of calls named x among calls.
Count(calls, x) == Cardinality({i \in 1..Len(calls) : calls[i] = x})

RECURSIVE ArgsOf(_, _)
\* The parameter values given to the calls of h whose method is in ms, in
\* call order.
ArgsOf(h, ms) ==
    IF Len(h) = 0 THEN <<>>
    ELSE (IF h[1].m \in ms THEN h[1].v ELSE <<>>) \o ArgsOf(Tail(h), ms)

FilterArgs(h) == ArgsOf(h, {"Where", "WhereIn"})
BoundArgs(h) == ArgsOf(h, {"Where", "WhereIn", "Having"})

\* The where clause of the filter fragments F.
WhereClause(F) ==
    IF Len(F) = 0 THEN <<>>
    ELSE <<"w", "h", "e", "r", "e", " ">> \o F[1]
         \o Flatten([i \in 1..(Len(F) - 1) |-> Grouping \o F[i + 1]])

\* C1: every allocated Context is either idle in the pool, once, or checked
\* out by exactly one caller; a Context never allocated is nowhere.
C1_PoolExclusive ==
    \A k \in CtxIds :
        pool[k] + Cardinality(Holders(k)) = IF k <= nalloc THEN 1 ELSE 0

\* Two callers hold different Contexts at once, one inside its driver call,
\* the other with a Context that an earlier holder had configured.
C1_Witness ==
    \E c1, c2 \in Callers :
        /\ c1 # c2
        /\ pc[c1] = "driver"
        /\ pc[c2] = "held"
        /\ held[c1] # held[c2]
        /\ got[c2].wheres # <<>>

\* C2: the Context a plain Acquire has just returned has every field at
\* its empty value, the transaction handle included.
C2_ResetLaw ==
    \A c \in Callers :
        (pc[c] = "held" /\ Len(hist[c]) = 1 /\ hist[c][1].m = "Acquire") =>
            LET ctx == ctxs[held[c]]
            IN  /\ ctx.sql = <<>> /\ ctx.name = <<>>
                /\ ctx.what = <<>> /\ ctx.wheres = <<>> /\ ctx.args = <<>>
                /\ ctx.order = <<>> /\ ctx.group = <<>> /\ ctx.having = <<>>
                /\ ctx.limit = 0 /\ ctx.offset = 0
                /\ ctx.tx = NoTx /\ ~ctx.lockX /\ ~ctx.lockS

\* Acquire has just returned a Context whose previous holder had bound it
\* to a transaction, added a filter with a parameter and run a query.
C2_Witness ==
    \E c \in Callers :
        /\ pc[c] = "held" /\ Len(hist[c]) = 1 /\ hist[c][1].m = "Acquire"
        /\ got[c].tx # NoTx
        /\ got[c].wheres # <<>>
        /\ got[c].args # <<>>
        /\ got[c].sql # <<>>

\* C3: from the acquisition to the end of the driver call the Context has
\* not been put back, and once the terminal operation has ended (driver
\* result, driver error, timeout or panic) it has been put back exactly
\* once.
C3_PutOnce ==
    \A c \in Callers :
        /\ pc[c] \in {"held", "driver"} =>
               puts[c] = 0 /\ pool[held[c]] = 0
        /\ ret[c] # "none" => puts[c] = 1

\* A terminal operation ended by the timeout of its driver call.
C3_Witness ==
    \E c \in Callers : ret[c] = "timeout" /\ puts[c] = 1 /\ pc[c] = "idle"

\* C4: when Beginx succeeded and h returned an error, WithTx has called
\* Rollback once, has not called Commit, and returns what Rollback returned.
C4_FailureBranch ==
    \A c \in Callers :
        (/\ wtx[c].pc = "returned"
         /\ wtx[c].begun = "nil"
         /\ wtx[c].work \notin {"none", "nil", "panic"}) =>
            /\ Count(wtx[c].calls, "Rollback") = 1
            /\ Count(wtx[c].calls, "Commit") = 0
            /\ wtx[c].ret = wtx[c].rolled

\* h failed, Rollback failed too, and WithTx returned the error of Rollback.
C4_Witness ==
    \E c \in Callers :
        /\ wtx[c].pc = "returned"
        /\ wtx[c].work = "ErrWork"
        /\ wtx[c].rolled = "ErrRollback"
        /\ wtx[c].ret = "ErrRollback"

\* C5: when Beginx succeeded and h returned nil, WithTx has called Commit
\* once and returns what Commit returned.
C5_SuccessBranch ==
    \A c \in Callers :
        (/\ wtx[c].pc = "returned"
         /\ wtx[c].begun = "nil"
         /\ wtx[c].work = "nil") =>
            /\ Count(wtx[c].calls, "Commit") = 1
            /\ wtx[c].ret = wtx[c].committed

\* C6: when h returned an error WithTx returns an error, and WithTx
\* returns nil only after a Commit that returned nil.
C6_NoErrorSwallowed ==
    \A c \in Callers :
        wtx[c].pc = "returned" =>
            /\ wtx[c].work \notin {"none", "nil", "panic"} =>
                   wtx[c].ret # "nil"
            /\ wtx[c].ret = "nil" => wtx[c].committed = "nil"

\* C7: a WithTx call that opened a transaction and returned has called
\* exactly one of Commit and Rollback, and at no point has it called both.
C7_StateMachine ==
    \A c \in Callers :
        wtx[c].begun = "nil" =>
            /\ Count(wtx[c].calls, "Commit")
                 + Count(wtx[c].calls, "Rollback") <= 1
            /\ wtx[c].pc = "returned" =>
                   Count(wtx[c].calls, "Commit")
                     + Count(wtx[c].calls, "Rollback") = 1

\* C8: when Beginx failed, WithTx has returned its error at once: Beginx is
\* the only call made, h was not called, nor Commit, nor Rollback.
C8_BeginFailure ==
    \A c \in Callers :
        wtx[c].begun \notin {"none", "nil"} =>
            /\ wtx[c].pc = "returned"
            /\ wtx[c].ret = wtx[c].begun
            /\ wtx[c].calls = <<"Beginx">>
            /\ wtx[c].work = "none"
            /\ wtx[c].committed = "none"
            /\ wtx[c].rolled = "none"

\* WithTx has returned the error of a failed Beginx.
C8_Witness ==
    \E c \in Callers :
        /\ wtx[c].pc = "returned"
        /\ wtx[c].begun = "ErrBegin"
        /\ wtx[c].ret = "ErrBegin"

\* The statement Update hands to the driver.
UpdateStatement(ctx, sqlset) ==
    <<"u", "p", "d", "a", "t", "e", " ">> \o ctx.name
    \o <<" ", "s", "e", "t", " ">> \o sqlset \o <<" ">>
    \o WhereClause(ctx.wheres)

IsInFragment(f, field, n) ==
    LET L == Len(field)
        mid == IF n = 0 THEN 0 ELSE 3 * n - 2
    IN  /\ Len(f) = L + 5 + mid + 1
        /\ SubSeq(f, 1, L) = field
        /\ SubSeq(f, L + 1, L + 5) = <<" ", "i", "n", " ", "(">>
        /\ \A i \in 1..mid :
               f[L + 5 + i] = IF i % 3 = 1 THEN "?"
                              ELSE IF i % 3 = 2 THEN "," ELSE " "
        /\ f[Len(f)] = ")"
        /\ CountChar(f, "?") = CountChar(field, "?") + n

\* The step of caller c is a call of the configuration method m.
Calls(c, m) ==
    /\ pc[c] = "held"
    /\ Len(hist'[c]) = Len(hist[c]) + 1
    /\ hist'[c][Len(hist'[c])].m = m

\* C10: WhereIn(field, values) appends one fragment "field in (?, ..., ?)"
\* with one placeholder per value to the filters and the values, in order,
\* to the bound parameters; what was there before stays in front of them.
C10_WhereIn ==
    [][\A c \in Callers :
         Calls(c, "WhereIn") =>
             LET call == hist'[c][Len(hist'[c])]
                 old == ctxs[held[c]]
                 new == ctxs'[held[c]]
             IN  /\ Len(new.wheres) = Len(old.wheres) + 1
                 /\ SubSeq(new.wheres, 1, Len(old.wheres)) = old.wheres
                 /\ IsInFragment(new.wheres[Len(new.wheres)], call.s,
                                 Len(call.v))
                 /\ new.args = old.args \o call.v]_vars

\* WhereIn with MaxIn values has just been called on a Context that
\* already had a filter with a parameter.
C10_Witness ==
    \E c \in Callers :
        /\ pc[c] = "held"
        /\ Len(hist[c]) = 3
        /\ hist[c][2].m = "Where" /\ hist[c][2].v # <<>>
        /\ hist[c][3].m = "WhereIn" /\ Len(hist[c][3].v) = MaxIn
        /\ Len(ctxs[held[c]].wheres) = 2
        /\ Len(ctxs[held[c]].args) = MaxIn + 1

---------------------------------------------------------------------------
(* Statements as texts: the expected text of a statement is written out as *)
(* one concatenation, each optional clause with the space in front of it.  *)

StartsWith(s, p) == Len(p) <= Len(s) /\ SubSeq(s, 1, Len(p)) = p

EndsWith(s, t) ==
    Len(t) <= Len(s) /\ SubSeq(s, Len(s) - Len(t) + 1, Len(s)) = t

\* Number of places of s at which the text sub begins.
Occurrences(s, sub) ==
    Cardinality({i \in 1..(Len(s) - Len(sub) + 1) :
                   SubSeq(s, i, i + Len(sub) - 1) = sub})

\* The elements of ss separated by ", ".
CommaList(ss) ==
    IF Len(ss) = 0 THEN <<>>
    ELSE ss[1] \o Flatten([i \in 1..(Len(ss) - 1) |->
                             <<",", " ">> \o ss[i + 1]])

\* The caller is inside the driver call of FindOne or FindMany.
Finding(c) == pc[c] = "driver" /\ op[c].m \in {"FindOne", "FindMany"}

TxtSelect == <<"s", "e", "l", "e", "c", "t", " ">>
TxtFrom == <<" ", "f", "r", "o", "m", " ">>
TxtGroupBy == <<" ", "g", "r", "o", "u", "p", " ", "b", "y", " ">>
TxtHaving == <<" ", "h", "a", "v", "i", "n", "g", " ">>
TxtOrderBy == <<" ", "o", "r", "d", "e", "r", " ", "b", "y", " ">>
TxtLimit == <<" ", "l", "i", "m", "i", "t", " ">>
TxtForUpdate == <<" ", "f", "o", "r", " ", "u", "p", "d", "a", "t", "e">>
TxtShareMode ==
    <<" ", "l", "o", "c", "k", " ", "i", "n", " ", "s", "h", "a", "r", "e",
      " ", "m", "o", "d", "e">>

\* The text of limit l with offset o.
LimitText(o, l) == TxtLimit \o FormatInt(o) \o <<",", " ">> \o FormatInt(l)

\* What follows the column list in the select statement of the
\* configuration ctx, ending with the lock text locks.
SelectTail(ctx, locks) ==
    TxtFrom \o ctx.name
    \o (IF ctx.wheres # <<>> THEN <<" ">> \o WhereClause(ctx.wheres)
        ELSE <<>>)
    \o (IF ctx.group # <<>> THEN TxtGroupBy \o ctx.group ELSE <<>>)
    \o (IF ctx.having # <<>> THEN TxtHaving \o ctx.having ELSE <<>>)
    \o (IF ctx.order # <<>> THEN TxtOrderBy \o ctx.order ELSE <<>>)
    \o (IF ctx.limit # 0 THEN LimitText(ctx.offset, ctx.limit) ELSE <<>>)
    \o locks

\* sql is "select", a column list, and tail.
IsSelect(sql, tail) ==
    /\ StartsWith(sql, TxtSelect)
    /\ EndsWith(sql, tail)
    /\ Len(sql) > Len(TxtSelect) + Len(tail)

\* The one lock clause of a configuration; with both locks set, either.
OneLock(ctx) ==
    (IF ctx.lockX THEN {TxtForUpdate} ELSE {})
    \cup (IF ctx.lockS THEN {TxtShareMode} ELSE {})
    \cup (IF ~ctx.lockX /\ ~ctx.lockS THEN {<<>>} ELSE {})

\* C11 as claimed: the select statement of FindOne and FindMany is select,
\* the column list, from <table>, then where, group by, having, order by,
\* limit and one lock clause, each only when its field is set, in this
\* order whatever the order of the configuration calls; the lock clause is
\* "for update" for the exclusive lock, "lock in share mode" for the shared.
C11_ClauseOrder ==
    \A c \in Callers :
        Finding(c) =>
            \E locks \in OneLock(ctxs[held[c]]) :
                IsSelect(sent[c].sql, SelectTail(ctxs[held[c]], locks))

\* C11 amended: the same order of clauses, ending with "lock in share mode"
\* when the shared lock is set and then "for update" when the exclusive
\* lock is set, so that a configuration with both locks has both clauses.
C11_ClauseOrderBothLocks ==
    \A c \in Callers :
        Finding(c) =>
            IsSelect(sent[c].sql,
                     SelectTail(ctxs[held[c]],
                                (IF ctxs[held[c]].lockS THEN TxtShareMode
                                 ELSE <<>>)
                                \o (IF ctxs[held[c]].lockX THEN TxtForUpdate
                                    ELSE <<>>)))

\* FindMany after Order and then Group: group by comes before order by.
C11_Witness ==
    \E c \in Callers :
        /\ Finding(c)
        /\ Len(hist[c]) = 3
        /\ hist[c][2].m = "Order" /\ hist[c][3].m = "Group"
        /\ EndsWith(sent[c].sql,
                    TxtGroupBy \o ctxs[held[c]].group
                    \o TxtOrderBy \o ctxs[held[c]].order)

\* The columns a destination declares: its db tags, fields without one
\* skipped; a destination that is not a struct declares none.
DeclaredColumns(dest) == SelectSeq(dest.tags, LAMBDA t : t # <<>>)

\* The column list of the configuration ctx for the destination dest.
ExpectedColumns(ctx, dest) ==
    IF ctx.what # <<>> THEN CommaList(ctx.what)
    ELSE IF DeclaredColumns(dest) # <<>>
         THEN CommaList(DeclaredColumns(dest))
         ELSE <<"*">>

\* C12: FindOne and FindMany build a statement whose column list is the
\* projection set with What when it is not empty, else the db-tag columns
\* of the destination in field order, and "*" exactly when no projection
\* was set and the destination declares no column.
C12_ColumnInference ==
    [][\A c \in Callers, dest \in Dests :
         (FindOne(c, dest) \/ FindMany(c, dest)) =>
             /\ pc'[c] = "driver"
             /\ StartsWith(sent'[c].sql,
                           TxtSelect \o ExpectedColumns(ctxs[held[c]], dest)
                           \o TxtFrom)
             /\ (StartsWith(sent'[c].sql, TxtSelect \o <<"*">> \o TxtFrom)
                   <=> (ctxs[held[c]].what = <<>>
                        /\ DeclaredColumns(dest) = <<>>))]_vars

\* The number given to the last call of method m in the chain h, 0 when
\* the chain has no such call.
LastNumber(h, m) ==
    LET I == {i \in 1..Len(h) : h[i].m = m}
    IN  IF I = {} THEN 0 ELSE h[CHOOSE i \in I : \A j \in I : j <= i].n

TxtLimitWord == <<"l", "i", "m", "i", "t">>

\* C13: with limit 0 the select statement has no limit clause, whatever the
\* offset; with another limit it has exactly one, "limit <offset>, <limit>",
\* whatever the order in which Limit and Offset were called.
C13_LimitClause ==
    \A c \in Callers :
        Finding(c) =>
            LET limit == LastNumber(hist[c], "Limit")
                offset == LastNumber(hist[c], "Offset")
            IN  IF limit = 0
                THEN Occurrences(sent[c].sql, TxtLimitWord) = 0
                ELSE /\ Occurrences(sent[c].sql, TxtLimitWord) = 1
                     /\ Occurrences(sent[c].sql, LimitText(offset, limit)) = 1

\* FindOne or FindMany after Limit and then Offset: the statement ends with
\* the offset first and the limit second.
C13_Witness ==
    \E c \in Callers :
        /\ Finding(c)
        /\ Len(hist[c]) = 3
        /\ hist[c][2].m = "Limit" /\ hist[c][3].m = "Offset"
        /\ hist[c][2].n # 0 /\ hist[c][3].n # 0
        /\ EndsWith(sent[c].sql, LimitText(hist[c][3].n, hist[c][2].n))

\* The calls of the chain h that add a filter, in call order.
FilterCalls(h) == SelectSeq(h, LAMBDA x : x.m \in {"Where", "WhereIn"})

\* F is the fragments added by the chain h, in the order they were added.
AddedInOrder(F, h) ==
    /\ Len(F) = Len(FilterCalls(h))
    /\ \A k \in 1..Len(F) :
           LET call == FilterCalls(h)[k]
           IN  IF call.m = "Where" THEN F[k] = call.s
               ELSE IsInFragment(F[k], call.s, Len(call.v))

TxtWhereWord == <<"w", "h", "e", "r", "e">>
TxtDeleteFrom == <<"d", "e", "l", "e", "t", "e", " ", "f", "r", "o", "m", " ">>

\* C14: the where clause of the select statement, of Update and of Delete
\* is "where " and the filter fragments in the order they were added,
\* joined with " and "; with no fragment the statement has no "where".
C14_WhereClause ==
    \A c \in Callers :
        (pc[c] = "driver"
         /\ op[c].m \in {"FindOne", "FindMany", "Update", "UpdateMap",
                         "Delete"}) =>
            LET ctx == ctxs[held[c]]
                F == ctx.wheres
                sql == sent[c].sql
            IN  /\ AddedInOrder(F, hist[c])
                /\ Occurrences(sql, TxtWhereWord) =
                       IF F = <<>> THEN 0 ELSE 1
                /\ op[c].m = "Delete" =>
                       sql = TxtDeleteFrom \o ctx.name \o <<" ">>
                             \o WhereClause(F)
                /\ op[c].m \in {"Update", "UpdateMap"} =>
                       sql = UpdateStatement(ctx, op[c].text)
                /\ (Finding(c) /\ F # <<>>) =>
                       Occurrences(sql, TxtFrom \o ctx.name \o <<" ">>
                                        \o WhereClause(F)) = 1

\* Delete after two filters, a Where and a WhereIn: the statement ends with
\* the two fragments in call order, " and " between them.
C14_Witness ==
    \E c \in Callers :
        /\ pc[c] = "driver" /\ op[c].m = "Delete"
        /\ Len(hist[c]) = 3
        /\ hist[c][2].m = "Where" /\ hist[c][3].m = "WhereIn"
        /\ EndsWith(sent[c].sql,
                    <<"w", "h", "e", "r", "e", " ">> \o hist[c][2].s
                    \o <<" ", "a", "n", "d", " ">>
                    \o ctxs[held[c]].wheres[2])

TxtInsertInto ==
    <<"i", "n", "s", "e", "r", "t", " ", "i", "n", "t", "o", " ">>
TxtValues == <<" ", "v", "a", "l", "u", "e", "s", " ">>

\* "(?, ..., ?)" with n placeholders.
GroupText(n) ==
    <<"(">> \o CommaList([i \in 1..n |-> <<"?">>]) \o <<")">>

\* The position in the parameter list of element i of row r of rows.
RECURSIVE RowMajor(_, _, _)
RowMajor(rows, r, i) ==
    IF r = 1 THEN i ELSE Len(rows[1]) + RowMajor(Tail(rows), r - 1, i)

RECURSIVE TotalLen(_)
TotalLen(rows) ==
    IF Len(rows) = 0 THEN 0 ELSE Len(rows[1]) + TotalLen(Tail(rows))

\* C15: InsertBatch sends "insert into <table> (<fields>) values <groups>"
\* with one group of placeholders per row, in row order, one placeholder
\* per element of the row, and the values of the rows in row-major order as
\* parameters; Insert is the case of one row in which the k-th column and
\* the k-th parameter are one entry of the map.
C15_InsertBatch ==
    \A c \in Callers :
        (pc[c] = "driver" /\ op[c].m \in {"Insert", "InsertBatch"}) =>
            LET rows == op[c].rows
                args == sent[c].args
            IN  /\ sent[c].call = "ExecContext"
                /\ sent[c].sql =
                       TxtInsertInto \o ctxs[held[c]].name \o <<" ", "(">>
                       \o CommaList(op[c].fields) \o <<")">> \o TxtValues
                       \o CommaList([r \in 1..Len(rows) |->
                                       GroupText(Len(rows[r]))])
                /\ Len(args) = TotalLen(rows)
                /\ \A r \in 1..Len(rows) : \A i \in 1..Len(rows[r]) :
                       args[RowMajor(rows, r, i)] = rows[r][i]
                /\ op[c].m = "Insert" =>
                       /\ Len(rows) = 1
                       /\ Len(rows[1]) = Len(op[c].fields)
                       /\ \E keys \in Maps :
                              /\ Len(keys) = Len(op[c].fields)
                              /\ \A k \in 1..Len(keys) :
                                     \E e \in 1..Len(keys) :
                                         keys[e] = <<op[c].fields[k],
                                                     args[k]>>

\* InsertBatch with two rows of two values: two groups, four parameters.
C15_Witness ==
    \E c \in Callers :
        /\ pc[c] = "driver" /\ op[c].m = "InsertBatch"
        /\ Len(op[c].rows) = 2
        /\ sent[c].args = op[c].rows[1] \o op[c].rows[2]
        /\ EndsWith(sent[c].sql,
                    <<"(", "?", ",", " ", "?", ")", ",", " ",
                      "(", "?", ",", " ", "?", ")">>)

\* C16: Select, Get and Exec send to the driver exactly the SQL text and
\* the parameters the caller gave them, whatever configuration calls came
\* before, and nothing that query assembly or the filters produced.
C16_RawPassthrough ==
    \A c \in Callers :
        (pc[c] = "driver" /\ op[c].m \in {"Select", "Get", "Exec"}) =>
            /\ sent[c].sql = op[c].text
            /\ sent[c].args = op[c].args

\* C17: InsertBatch given a row whose length is not len(fields) returns a
\* malformed-input error and sends no statement to the driver, so that
\* every InsertBatch statement at the driver has rows of len(fields) values.
C17_RowLengthChecked ==
    \A c \in Callers :
        (pc[c] = "driver" /\ op[c].m = "InsertBatch") =>
            \A r \in 1..Len(op[c].rows) :
                Len(op[c].rows[r]) = Len(op[c].fields)

\* The parameters of the last Having call of the chain h.
LastHavingArgs(h) ==
    LET I == {i \in 1..Len(h) : h[i].m = "Having"}
    IN  IF I = {} THEN <<>> ELSE h[CHOOSE i \in I : \A j \in I : j <= i].v

\* C18: after any sequence of Where, WhereIn and Having calls, FindOne and
\* FindMany hand the driver one parameter per placeholder of the statement,
\* in the order of the placeholders: the parameters of the filters in
\* fragment order, then those of the having clause.
C18_ParamsAligned ==
    \A c \in Callers :
        Finding(c) =>
            /\ Len(sent[c].args) = CountChar(sent[c].sql, "?")
            /\ sent[c].args = FilterArgs(hist[c]) \o LastHavingArgs(hist[c])

ConfigMethods ==
    {"Name", "What", "Where", "WhereIn", "Order", "Limit", "Offset",
     "Group", "Having", "LockX", "LockS"}

\* The fields in which the Contexts old and new differ.
ChangedFields(old, new) == {f \in DOMAIN old : old[f] # new[f]}

\* The step of caller c leaves alone the instance it holds, the Contexts of
\* the others, the pool, the driver and the caller's place in its chain.
NoOtherEffect(c) ==
    /\ held' = held /\ pool' = pool /\ nalloc' = nalloc
    /\ pc' = pc /\ op' = op /\ sent' = sent /\ puts' = puts /\ ret' = ret
    /\ wtx' = wtx
    /\ \A k \in CtxIds : k # held[c] => ctxs'[k] = ctxs[k]

\* C19 as claimed: a configuration method changes one field of the Context
\* and no other, returns the same instance, calls no driver operation and
\* does not touch the pool.
C19_OneFieldChanged ==
    [][\A c \in Callers : \A m \in ConfigMethods :
         Calls(c, m) =>
             /\ Cardinality(ChangedFields(ctxs[held[c]],
                                          ctxs'[held[c]])) <= 1
             /\ NoOtherEffect(c)]_vars

\* The field a configuration method sets and the value it gives it.
SetsField(m, call, old, new) ==
    CASE m = "Name" -> new = [old EXCEPT !.name = call.s]
      [] m = "What" -> new = [old EXCEPT !.what = call.l]
      [] m = "Order" -> new = [old EXCEPT !.order = call.s]
      [] m = "Group" -> new = [old EXCEPT !.group = call.s]
      [] m = "Limit" -> new = [old EXCEPT !.limit = call.n]
      [] m = "Offset" -> new = [old EXCEPT !.offset = call.n]
      [] m = "LockX" -> new = [old EXCEPT !.lockX = TRUE]
      [] m = "LockS" -> new = [old EXCEPT !.lockS = TRUE]
      [] m = "Having" ->
             new = [old EXCEPT !.having = call.s, !.args = @ \o call.v]
      [] m = "Where" ->
             new = [old EXCEPT !.wheres = Append(@, call.s),
                               !.args = @ \o call.v]
      [] m = "WhereIn" ->
             /\ ChangedFields(old, new) \subseteq {"wheres", "args"}
             /\ Len(new.wheres) = Len(old.wheres) + 1
             /\ SubSeq(new.wheres, 1, Len(old.wheres)) = old.wheres
             /\ new.args = old.args \o call.v

\* C19 amended: Name, What, Order, Limit, Offset, Group, LockX and LockS
\* set one field and change no other; Where and WhereIn append one fragment
\* to the filters and their parameters to the bound parameters; Having sets
\* the having text and appends its parameters to the bound parameters; no
\* other field changes, the instance stays the same, no driver operation is
\* called and the pool is not touched.
C19_FieldsChanged ==
    [][\A c \in Callers : \A m \in ConfigMethods :
         Calls(c, m) =>
             /\ SetsField(m, hist'[c][Len(hist'[c])], ctxs[held[c]],
                          ctxs'[held[c]])
             /\ NoOtherEffect(c)]_vars

\* Where with a parameter has just been called on a Context whose limit an
\* earlier call had set: the filters and the bound parameters have both
\* grown and the limit is still there.
C19_Witness ==
    \E c \in Callers :
        /\ pc[c] = "held"
        /\ Len(hist[c]) = 3
        /\ hist[c][2].m = "Limit"
        /\ hist[c][3].m = "Where" /\ hist[c][3].v # <<>>
        /\ ctxs[held[c]].limit # 0
        /\ Len(ctxs[held[c]].wheres) = 1
        /\ ctxs[held[c]].args = hist[c][3].v

\* C20: a Context obtained with AcquireTx(tx) runs its terminal operation
\* on the transaction handle tx, one obtained with Acquire runs it on the
\* database handle, also when the previous holder of the same instance had
\* bound it to a transaction.
C20_TxRouting ==
    \A c \in Callers :
        pc[c] = "driver" =>
            /\ sent[c].call \in {"GetContext", "SelectContext", "ExecContext"}
            /\ hist[c][1].m = "AcquireTx" =>
                   (sent[c].on = "tx" /\ sent[c].tx = hist[c][1].n
                    /\ sent[c].tx # NoTx)
            /\ hist[c][1].m = "Acquire" =>
                   (sent[c].on = "db" /\ sent[c].tx = NoTx)

\* A terminal operation of the find path runs on the database handle, on a
\* Context obtained with Acquire that still carried the transaction of its
\* previous holder when the pool handed it out.
C20_Witness ==
    \E c \in Callers :
        /\ pc[c] = "driver"
        /\ op[c].path = "find"
        /\ hist[c][1].m = "Acquire"
        /\ hist[c][1].v # <<NoTx>>
        /\ sent[c].on = "db"

\* C21: when WithTx has begun a transaction and exits, by returning or by
\* the panic of the unit of work going on through it, it has called Commit
\* or Rollback on that transaction.
C21_NoTxLeftOpen ==
    \A c \in Callers :
        (wtx[c].pc \in {"returned", "panicked"} /\ wtx[c].begun = "nil") =>
            Count(wtx[c].calls, "Commit")
              + Count(wtx[c].calls, "Rollback") >= 1

============================================================================
